---- MODULE Spec2Model ----
(***************************************************************************)
(* The guest registry service of src/src/app.ts: the three RPC handlers     *)
(* (checkInGuest, getGuestByLastNameAndRoom, incrementWifiLoginCount), the  *)
(* server start-up (bindAsync) and the event bridge                        *)
(* (subscribeToGuestEvents) that turns "guest.update" messages into        *)
(* IncrementWifiLoginCount RPCs.                                            *)
(*                                                                         *)
(* Names are sequences of one-character strings so that toLowerCase is     *)
(* computed character by character.  The guests table is a set of rows.    *)
(***************************************************************************)
EXTENDS Integers, Sequences, FiniteSets, TLC

VARIABLES
    serverPc,   \* "binding" | "bound" | "bindFailed"        (server.bindAsync)
    bridgePc,   \* "off" | "connecting" | "running" | "connectFailed" | "crashed"
    guests,     \* the rows of the "guests" table
    okCalls,    \* history: row id -> successful IncrementWifiLoginCount calls naming that row
    checkins,   \* the CheckInGuest requests, in arrival order, with their position
    getResp,    \* the outcome of the latest GetGuestByLastNameAndRoom request
    delivered,  \* the messages delivered to the "guest.update" subscription, in order
    cursor,     \* number of delivered messages the for-await loop has taken
    issued      \* the RPCs the bridge issued, in issue order

vars == <<serverPc, bridgePc, guests, okCalls, checkins, getResp, delivered, cursor, issued>>

----------------------------------------------------------------------------
(* Bounds *)

MaxRoom == 2        \* rooms are 1..MaxRoom
MaxCheckIns == 2    \* CheckInGuest requests per behaviour
MaxMsgs == 2        \* messages delivered to the bridge per behaviour
MaxCount == 2       \* cap on wifi_login_count

Rooms == 1..MaxRoom

----------------------------------------------------------------------------
(* Strings *)

Upper == <<"A", "D", "L", "O">>
Lower == <<"a", "d", "l", "o">>

\* String.prototype.toLowerCase on one character
LowerChar(c) ==
    IF \E i \in DOMAIN Upper : Upper[i] = c
    THEN Lower[CHOOSE i \in DOMAIN Upper : Upper[i] = c]
    ELSE c

\* String.prototype.toLowerCase
toLowerCase(s) == [i \in DOMAIN s |-> LowerChar(s[i])]

\* the request inputs
CheckInInputs ==
    { [firstName |-> <<"A", "l">>, lastName |-> <<"D", "O">>],
      [firstName |-> <<"a", "l">>, lastName |-> <<"d", "o">>] }
LastNames == { <<"D", "O">>, <<"d", "o">>, <<"l", "o">> }
EventNames == { <<"D", "O">> }
EventRooms == { r \in Rooms : r <= 1 }

----------------------------------------------------------------------------
(* Values *)

Null == [null |-> TRUE]

\* the errors the store client reports
NoRowError     == [code |-> "PGRST116", message |-> "JSON object requested, multiple (or no) rows returned"]
BackendError   == [code |-> "08006", message |-> "connection failure"]
UniqueError    == [code |-> "23505", message |-> "duplicate key value violates unique constraint"]

\* the error the lookup builds when it has no data
NoUserError ==
    [name |-> "NoUserError", message |-> "No user found", code |-> 13, details |-> "No user found"]

\* utils.generateServiceError: the uniform RPC error shape, keeping the store's message
generateServiceError(error) ==
    [name |-> "ServiceError", message |-> error.message, code |-> 13, details |-> error.message]

----------------------------------------------------------------------------
(* The guest store *)

Occupied(rows) == { g.room_number : g \in rows }

Matching(rows, last_name, room_number) ==
    { g \in rows : g.last_name = last_name /\ g.room_number = room_number }

\* supabase.from("guests").insert(row): one atomic insert; the store assigns id and
\* the default wifi_login_count, and rejects a room that is already occupied
StoreInsert(rows, row, fail) ==
    IF fail THEN [rows |-> rows, error |-> BackendError]
    ELSE IF row.room_number \in Occupied(rows) THEN [rows |-> rows, error |-> UniqueError]
    ELSE [rows |-> rows \cup
                   { [id |-> Cardinality(rows) + 1,
                      first_name |-> row.first_name,
                      last_name |-> row.last_name,
                      room_number |-> row.room_number,
                      wifi_login_count |-> 0] },
          error |-> Null]

\* a query that takes the first matching row, as .limit(1).maybeSingle() does
StoreSingle_FirstRow(rows, last_name, room_number, fail) ==
    LET m == Matching(rows, last_name, room_number) IN
    IF fail THEN [data |-> Null, error |-> BackendError]
    ELSE IF m # {} THEN [data |-> CHOOSE g \in m : TRUE, error |-> Null]
    ELSE [data |-> Null, error |-> NoRowError]

\* .select("*").eq("last_name", l).eq("room_number", r).single(): the one matching
\* row, or an error when the result is not exactly one row
StoreSingle(rows, last_name, room_number, fail) ==
    LET m == Matching(rows, last_name, room_number) IN
    IF fail THEN [data |-> Null, error |-> BackendError]
    ELSE IF Cardinality(m) = 1 THEN [data |-> CHOOSE g \in m : TRUE, error |-> Null]
    ELSE [data |-> Null, error |-> NoRowError]

\* supabase.rpc("increment_wifi_login_count", ...): the store's atomic increment of
\* the rows with that (last_name, room_number)
StoreIncrement(rows, last_name, room_number, fail) ==
    IF fail THEN [rows |-> rows, error |-> BackendError]
    ELSE [rows |-> { IF g \in Matching(rows, last_name, room_number)
                     THEN [g EXCEPT !.wifi_login_count = @ + 1]
                     ELSE g : g \in rows },
          error |-> Null]

----------------------------------------------------------------------------
(* Room allocator *)

\* utils.generateRoomNumber: the lowest free room of the range; it throws when its
\* occupancy query fails or the range is exhausted
generateRoomNumber(rows, fail) ==
    LET free == Rooms \ Occupied(rows) IN
    IF fail \/ free = {} THEN [threw |-> TRUE, roomNumber |-> 0]
    ELSE [threw |-> FALSE, roomNumber |-> CHOOSE r \in free : \A q \in free : r <= q]

----------------------------------------------------------------------------
(* Start-up *)

\* server.bindAsync callback without err: the server serves, and the callback calls
\* subscribeToGuestEvents, which runs up to its await of connect()
BindOk ==
    /\ serverPc = "binding"
    /\ serverPc' = "bound"
    /\ bridgePc' = "connecting"
    /\ UNCHANGED <<guests, okCalls, checkins, getResp, delivered, cursor, issued>>

\* a bindAsync callback whose "if (err)" branch does not return
BindFail_StartBridge ==
    /\ serverPc = "binding"
    /\ serverPc' = "bindFailed"
    /\ bridgePc' = "connecting"
    /\ UNCHANGED <<guests, okCalls, checkins, getResp, delivered, cursor, issued>>

\* server.bindAsync callback with err: logged, and the callback returns
BindFail ==
    /\ serverPc = "binding"
    /\ serverPc' = "bindFailed"
    /\ UNCHANGED <<bridgePc, guests, okCalls, checkins, getResp, delivered, cursor, issued>>

\* connect() resolves: subscribe, build the client, start the for-await loop
ConnectOk ==
    /\ bridgePc = "connecting"
    /\ bridgePc' = "running"
    /\ UNCHANGED <<serverPc, guests, okCalls, checkins, getResp, delivered, cursor, issued>>

\* a .catch that ends the process (process.exit) instead of logging
ConnectFail_Exit ==
    /\ bridgePc = "connecting"
    /\ bridgePc' = "connectFailed"
    /\ serverPc' = "exited"
    /\ UNCHANGED <<guests, okCalls, checkins, getResp, delivered, cursor, issued>>

\* connect() rejects: subscribeToGuestEvents rejects and the .catch logs it
ConnectFail ==
    /\ bridgePc = "connecting"
    /\ bridgePc' = "connectFailed"
    /\ UNCHANGED <<serverPc, guests, okCalls, checkins, getResp, delivered, cursor, issued>>

----------------------------------------------------------------------------
(* checkInGuest *)

\* checkInGuest storing first_name as received
CheckInRow_RawFirstName(request, roomNumber) ==
    [first_name |-> request.firstName,
     last_name |-> toLowerCase(request.lastName),
     room_number |-> roomNumber]

\* the row checkInGuest inserts
CheckInRow(request, roomNumber) ==
    [first_name |-> toLowerCase(request.firstName),
     last_name |-> toLowerCase(request.lastName),
     room_number |-> roomNumber]

\* checkInGuest without its "if (error)" test
CheckInResponse_IgnoreError(error, roomNumber) ==
    [err |-> Null, value |-> [roomNumber |-> roomNumber]]

\* what checkInGuest passes to its callback after the insert
CheckInResponse(error, roomNumber) ==
    IF error # Null
    THEN [err |-> generateServiceError(error), value |-> Null]
    ELSE [err |-> Null, value |-> [roomNumber |-> roomNumber]]

\* a CheckInGuest request arrives: the handler runs up to await generateRoomNumber()
CheckInStart(request) ==
    /\ serverPc = "bound"
    /\ Len(checkins) < MaxCheckIns
    /\ checkins' = Append(checkins,
            [request |-> request, pc |-> "allocating", roomNumber |-> 0,
             callbacks |-> 0, err |-> Null, value |-> Null])
    /\ UNCHANGED <<serverPc, bridgePc, guests, okCalls, getResp, delivered, cursor, issued>>

\* generateRoomNumber() settles: a room, or a rejection that leaves the handler
\* (there is no try/catch around the await) without calling the callback
CheckInAllocate(i, fail) ==
    /\ i \in DOMAIN checkins
    /\ checkins[i].pc = "allocating"
    /\ LET a == generateRoomNumber(guests, fail) IN
       checkins' = [checkins EXCEPT ![i] =
            IF a.threw THEN [@ EXCEPT !.pc = "rejected"]
            ELSE [@ EXCEPT !.pc = "inserting", !.roomNumber = a.roomNumber]]
    /\ UNCHANGED <<serverPc, bridgePc, guests, okCalls, getResp, delivered, cursor, issued>>

\* the insert settles and the handler calls the callback
CheckInInsert(i, fail) ==
    /\ i \in DOMAIN checkins
    /\ checkins[i].pc = "inserting"
    /\ LET c == checkins[i]
           r == StoreInsert(guests, CheckInRow(c.request, c.roomNumber), fail)
           resp == CheckInResponse(r.error, c.roomNumber)
       IN /\ guests' = r.rows
          /\ checkins' = [checkins EXCEPT ![i] =
                [@ EXCEPT !.pc = "done", !.callbacks = @ + 1,
                          !.err = resp.err, !.value = resp.value]]
    /\ UNCHANGED <<serverPc, bridgePc, okCalls, getResp, delivered, cursor, issued>>

----------------------------------------------------------------------------
(* getGuestByLastNameAndRoom *)

\* what getGuestByLastNameAndRoom passes to its callback
GetGuestResponse(res) ==
    IF res.error # Null THEN [err |-> generateServiceError(res.error), value |-> Null]
    ELSE IF res.data = Null THEN [err |-> NoUserError, value |-> Null]
    ELSE [err |-> Null,
          value |-> [id |-> res.data.id,
                     firstName |-> res.data.first_name,
                     lastName |-> res.data.last_name,
                     roomNumber |-> res.data.room_number,
                     wifiLoginCount |-> res.data.wifi_login_count]]

\* getGuestByLastNameAndRoom querying with lastName as received
getGuestByLastNameAndRoom_RawLastName(rows, request, fail) ==
    GetGuestResponse(StoreSingle(rows, request.lastName, request.roomNumber, fail))

\* the handler's query and outcome on a given table
getGuestByLastNameAndRoom(rows, request, fail) ==
    GetGuestResponse(StoreSingle(rows, toLowerCase(request.lastName), request.roomNumber, fail))

\* the request names row g: same room, same last name whatever the letter case
NamedBy(request, g) ==
    /\ toLowerCase(request.lastName) = toLowerCase(g.last_name)
    /\ request.roomNumber = g.room_number

\* a GetGuestByLastNameAndRoom request, handled to its callback; rows is the number
\* of rows the request names, kept with the outcome
GetGuest(request, fail) ==
    /\ serverPc = "bound"
    /\ LET resp == getGuestByLastNameAndRoom(guests, request, fail) IN
       getResp' = [op |-> "get", failed |-> fail, callbacks |-> 1,
                   rows |-> Cardinality({ g \in guests : NamedBy(request, g) }),
                   err |-> resp.err, value |-> resp.value]
    /\ UNCHANGED <<serverPc, bridgePc, guests, okCalls, checkins, delivered, cursor, issued>>

----------------------------------------------------------------------------
(* incrementWifiLoginCount *)

\* incrementWifiLoginCount calling the store with lastName as received
incrementWifiLoginCount_RawLastName(rows, request, fail) ==
    LET r == StoreIncrement(rows, request.lastName, request.roomNumber, fail) IN
    IF r.error # Null
    THEN [rows |-> r.rows, err |-> generateServiceError(r.error), value |-> Null]
    ELSE [rows |-> r.rows, err |-> Null, value |-> [success |-> TRUE]]

\* incrementWifiLoginCount writing back a count computed from a stale read of 0
incrementWifiLoginCount_WriteOne(rows, request, fail) ==
    IF fail THEN [rows |-> rows, err |-> generateServiceError(BackendError), value |-> Null]
    ELSE [rows |-> { IF g \in Matching(rows, toLowerCase(request.lastName), request.roomNumber)
                     THEN [g EXCEPT !.wifi_login_count = 1]
                     ELSE g : g \in rows },
          err |-> Null, value |-> [success |-> TRUE]]

\* incrementWifiLoginCount calling the store with a step of -1
incrementWifiLoginCount_Decrement(rows, request, fail) ==
    IF fail THEN [rows |-> rows, err |-> generateServiceError(BackendError), value |-> Null]
    ELSE [rows |-> { IF g \in Matching(rows, toLowerCase(request.lastName), request.roomNumber)
                     THEN [g EXCEPT !.wifi_login_count = @ - 1]
                     ELSE g : g \in rows },
          err |-> Null, value |-> [success |-> TRUE]]

\* incrementWifiLoginCount identifying the rows by room number alone
incrementWifiLoginCount_AnyLastName(rows, request, fail) ==
    IF fail THEN [rows |-> rows, err |-> generateServiceError(BackendError), value |-> Null]
    ELSE [rows |-> { IF g.room_number = request.roomNumber
                     THEN [g EXCEPT !.wifi_login_count = @ + 1]
                     ELSE g : g \in rows },
          err |-> Null, value |-> [success |-> TRUE]]

\* the handler's store call and outcome on a given table
incrementWifiLoginCount(rows, request, fail) ==
    LET r == StoreIncrement(rows, toLowerCase(request.lastName), request.roomNumber, fail) IN
    IF r.error # Null
    THEN [rows |-> r.rows, err |-> generateServiceError(r.error), value |-> Null]
    ELSE [rows |-> r.rows, err |-> Null, value |-> [success |-> TRUE]]

\* history: one more successful call for every row the request names
Counted(request, resp) ==
    [id \in DOMAIN okCalls |->
        IF resp.err = Null /\ \E g \in guests : g.id = id /\ NamedBy(request, g)
        THEN okCalls[id] + 1 ELSE okCalls[id]]

\* an IncrementWifiLoginCount request from an RPC caller, handled to its callback
IncrementCall(request, fail) ==
    /\ serverPc = "bound"
    /\ LET resp == incrementWifiLoginCount(guests, request, fail) IN
       /\ \A g \in resp.rows : g.wifi_login_count <= MaxCount
       /\ guests' = resp.rows
       /\ okCalls' = Counted(request, resp)
    /\ UNCHANGED <<serverPc, bridgePc, checkins, getResp, delivered, cursor, issued>>

----------------------------------------------------------------------------
(* The event bridge *)

IncrementTag == "increment.wifi.login.count"
OtherTag == "guest.checked.out"

\* the raw messages: text that is not JSON, or the text of an object with an event
\* tag and possibly a data object
EventData == { [lastName |-> n, roomNumber |-> r] : n \in EventNames, r \in EventRooms }
Messages ==
    { [json |-> FALSE, body |-> Null] } \cup
    { [json |-> TRUE, body |-> [event |-> IncrementTag, data |-> d]] : d \in {Null} \cup EventData } \cup
    { [json |-> TRUE, body |-> [event |-> OtherTag, data |-> Null]] }

\* JSON.parse(sc.decode(msg.data)): the object, or a SyntaxError
JSONparse(msg) ==
    IF msg.json THEN [threw |-> FALSE, value |-> msg.body]
    ELSE [threw |-> TRUE, value |-> Null]

\* the loop body without its test of guestData.event
LoopBody_AnyTag(msg) ==
    LET parsed == JSONparse(msg) IN
    IF parsed.threw THEN [threw |-> TRUE, requests |-> <<>>]
    ELSE IF parsed.value.data = Null
         THEN [threw |-> TRUE, requests |-> <<>>]
         ELSE [threw |-> FALSE,
               requests |-> << [lastName |-> parsed.value.data.lastName,
                                roomNumber |-> parsed.value.data.roomNumber] >>]

\* one iteration of the for-await loop on a message: the requests it hands to
\* client.incrementWifiLoginCount, or an exception (SyntaxError of JSON.parse,
\* TypeError of guestData.data.lastName) that leaves the async function
LoopBody(msg) ==
    LET parsed == JSONparse(msg) IN
    IF parsed.threw THEN [threw |-> TRUE, requests |-> <<>>]
    ELSE IF parsed.value.event = IncrementTag
         THEN IF parsed.value.data = Null
              THEN [threw |-> TRUE, requests |-> <<>>]
              ELSE [threw |-> FALSE,
                    requests |-> << [lastName |-> parsed.value.data.lastName,
                                     roomNumber |-> parsed.value.data.roomNumber] >>]
         ELSE [threw |-> FALSE, requests |-> <<>>]

\* an RPC callback that issues the request again when the RPC failed
RpcCallback_Retry(rpc, err) ==
    IF err # Null /\ Len(issued) <= MaxMsgs THEN << rpc.request >> ELSE <<>>

\* the RPC callback of the bridge: it logs the error or the success, and issues nothing
RpcCallback(rpc, err) == <<>>

\* the bus delivers a message to the subscription
Publish(msg) ==
    /\ bridgePc = "running"
    /\ Len(delivered) < MaxMsgs
    /\ delivered' = Append(delivered, msg)
    /\ UNCHANGED <<serverPc, bridgePc, guests, okCalls, checkins, getResp, cursor, issued>>

\* a loop that awaits the RPC of a message before it takes the next one
CanTake_AwaitRpc ==
    /\ bridgePc = "running"
    /\ cursor < Len(delivered)
    /\ \A k \in DOMAIN issued : issued[k].state # "inflight"

\* for await (const msg of sub): the loop is alive and a delivered message is waiting;
\* client.incrementWifiLoginCount returns at once, so no RPC holds the loop back
CanTake ==
    /\ bridgePc = "running"
    /\ cursor < Len(delivered)

\* the for-await loop takes the next message and runs its body
BridgeStep ==
    /\ CanTake
    /\ LET out == LoopBody(delivered[cursor + 1]) IN
       /\ bridgePc' = IF out.threw THEN "crashed" ELSE "running"
       /\ issued' = issued \o
            [j \in DOMAIN out.requests |->
                [msg |-> cursor + 1, request |-> out.requests[j], state |-> "inflight"]]
    /\ cursor' = cursor + 1
    /\ UNCHANGED <<serverPc, guests, okCalls, checkins, getResp, delivered>>

\* an RPC of the bridge is handled by incrementWifiLoginCount and its callback runs
RpcComplete(k, fail) ==
    /\ k \in DOMAIN issued
    /\ issued[k].state = "inflight"
    /\ LET resp == incrementWifiLoginCount(guests, issued[k].request, fail)
           again == RpcCallback(issued[k], resp.err)
       IN /\ \A g \in resp.rows : g.wifi_login_count <= MaxCount
          /\ guests' = resp.rows
          /\ okCalls' = Counted(issued[k].request, resp)
          /\ issued' = [issued EXCEPT ![k].state = IF resp.err = Null THEN "ok" ELSE "failed"]
                       \o [j \in DOMAIN again |->
                            [msg |-> issued[k].msg, request |-> again[j], state |-> "inflight"]]
    /\ UNCHANGED <<serverPc, bridgePc, checkins, getResp, delivered, cursor>>

----------------------------------------------------------------------------
Init ==
    /\ serverPc = "binding"
    /\ bridgePc = "off"
    /\ guests = {}
    /\ okCalls = [i \in 1..MaxCheckIns |-> 0]
    /\ checkins = <<>>
    /\ getResp = [op |-> "none"]
    /\ delivered = <<>>
    /\ cursor = 0
    /\ issued = <<>>

Requests == { [lastName |-> n, roomNumber |-> r] : n \in LastNames, r \in Rooms }

Next ==
    \/ BindOk
    \/ BindFail
    \/ ConnectOk
    \/ ConnectFail
    \/ \E request \in CheckInInputs : CheckInStart(request)
    \/ \E i \in 1..MaxCheckIns, fail \in BOOLEAN : CheckInAllocate(i, fail)
    \/ \E i \in 1..MaxCheckIns, fail \in BOOLEAN : CheckInInsert(i, fail)
    \/ \E request \in Requests, fail \in BOOLEAN : GetGuest(request, fail)
    \/ \E request \in Requests, fail \in BOOLEAN : IncrementCall(request, fail)
    \/ \E msg \in Messages : Publish(msg)
    \/ BridgeStep
    \/ \E k \in 1..MaxMsgs, fail \in BOOLEAN : RpcComplete(k, fail)

Spec == Init /\ [][Next]_vars

\* the loop and the RPC layer keep running while they have work
FairSpec ==
    /\ Spec
    /\ WF_vars(BridgeStep)
    /\ \A k \in 1..MaxMsgs : WF_vars(\E fail \in BOOLEAN : RpcComplete(k, fail))

\* the tables a process can find in the store: the table outlives the process and has
\* other writers, and no unique constraint on (last_name, room_number) is assumed
StoredNames == { toLowerCase(n) : n \in LastNames }
TableOf(f) ==
    { [id |-> i, first_name |-> <<"a", "l">>, last_name |-> f[i].last_name,
       room_number |-> f[i].room_number, wifi_login_count |-> f[i].wifi_login_count] :
        i \in DOMAIN f }
Tables ==
    UNION { { TableOf(f) :
                f \in [1..n -> [last_name : StoredNames, room_number : Rooms,
                                wifi_login_count : 0..MaxCount]] } :
            n \in 0..MaxCheckIns }

\* a serving process in front of any such table
InitTable ==
    /\ serverPc = "bound"
    /\ bridgePc = "connecting"
    /\ guests \in Tables
    /\ okCalls = [i \in 1..MaxCheckIns |->
                    IF \E g \in guests : g.id = i
                    THEN (CHOOSE g \in guests : g.id = i).wifi_login_count ELSE 0]
    /\ checkins = <<>>
    /\ getResp = [op |-> "none"]
    /\ delivered = <<>>
    /\ cursor = 0
    /\ issued = <<>>

LookupNext == \E request \in Requests, fail \in BOOLEAN : GetGuest(request, fail)

\* lookups against any table
LookupSpec == InitTable /\ [][LookupNext]_vars

TypeOK ==
    /\ serverPc \in {"binding", "bound", "bindFailed"}
    /\ bridgePc \in {"off", "connecting", "running", "connectFailed", "crashed"}
    /\ cursor \in 0..Len(delivered)

----------------------------------------------------------------------------
(* Helpers of the properties *)

Succeeded(i) == checkins[i].pc = "done" /\ checkins[i].err = Null

\* the message is JSON text of an event with the increment tag and a data object
WellFormedIncrement(msg) ==
    msg.json /\ msg.body.event = IncrementTag /\ msg.body.data # Null

\* the message is not JSON, or has the increment tag and no data object
Malformed(msg) ==
    ~msg.json \/ (msg.body.event = IncrementTag /\ msg.body.data = Null)

\* the message is JSON text of an event with another tag
OtherEvent(msg) == msg.json /\ msg.body.event # IncrementTag

RpcsOf(i) == { k \in DOMAIN issued : issued[k].msg = i }

----------------------------------------------------------------------------
(* C1: interleaved CheckIn requests that succeed are answered with pairwise
   different room numbers, and no two stored guest rows share a room number. *)
C1_DistinctRooms ==
    /\ \A i, j \in DOMAIN checkins :
        (i # j /\ Succeeded(i) /\ Succeeded(j))
            => checkins[i].value.roomNumber # checkins[j].value.roomNumber
    /\ \A g, h \in guests : g.id # h.id => g.room_number # h.room_number

\* two interleaved requests were allocated the same room and both got their answer:
\* one succeeded, the other was refused by the store
C1_Witness ==
    /\ Len(checkins) = 2
    /\ checkins[1].pc = "done" /\ checkins[2].pc = "done"
    /\ checkins[1].roomNumber = checkins[2].roomNumber
    /\ \E i \in DOMAIN checkins : Succeeded(i)

(* C2: a guest's stored wifiLoginCount equals the number of successful
   IncrementWifiLoginCount calls that named the guest since check-in, whatever
   calls for other guests happened in between. *)
C2_CountIsSuccessfulCalls ==
    \A g \in guests : g.wifi_login_count = okCalls[g.id]

\* a guest was incremented twice while another guest was incremented too
C2_Witness ==
    \E g, h \in guests :
        /\ g.id # h.id
        /\ g.wifi_login_count = 2 /\ okCalls[g.id] = 2
        /\ h.wifi_login_count >= 1

(* C3: a lookup that matches zero rows, with the store working, is answered with
   NoUserError and not with the error generateServiceError builds. *)
C3_ZeroRowsIsNoUserError ==
    (getResp.op = "get" /\ getResp.rows = 0 /\ ~getResp.failed)
        => getResp.err = NoUserError

(* C4: once the loop has taken a well-formed increment message, or has ended,
   exactly one IncrementWifiLoginCount RPC was issued for the message, with the
   message's lastName and roomNumber. *)
C4_ExactlyOneRpcPerMessage ==
    \A i \in DOMAIN delivered :
        (WellFormedIncrement(delivered[i]) /\ (i <= cursor \/ bridgePc = "crashed"))
            => /\ Cardinality(RpcsOf(i)) = 1
               /\ \A k \in RpcsOf(i) : issued[k].request = delivered[i].body.data

(* C5: taking a well-formed message with another tag issues no RPC, leaves the
   guests unchanged, raises nothing, and leaves the loop running. *)
C5_OtherEventIgnored ==
    [][ (cursor' = cursor + 1 /\ OtherEvent(delivered[cursor + 1]))
            => (issued' = issued /\ guests' = guests /\ bridgePc' = "running") ]_vars

\* an event with another tag was taken, and the message after it was dispatched
C5_Witness ==
    /\ cursor = 2
    /\ OtherEvent(delivered[1])
    /\ WellFormedIncrement(delivered[2])
    /\ RpcsOf(2) # {}
    /\ bridgePc = "running"

(* C6: a message that fails to decode does not end the consumption loop. *)
C6_MalformedSkipped ==
    \A i \in 1..cursor : Malformed(delivered[i]) => bridgePc = "running"

(* C7: when an RPC of the bridge fails, the loop's position is untouched, nothing
   is issued again, and no message ever has more than one RPC. *)
C7_RpcFailureOnlyObserved ==
    [][ /\ \A k \in DOMAIN issued :
            (issued[k].state = "inflight" /\ issued'[k].state = "failed")
                => /\ bridgePc' = bridgePc
                   /\ cursor' = cursor
                   /\ delivered' = delivered
                   /\ Len(issued') = Len(issued)
        /\ \A i \in DOMAIN delivered' :
            Cardinality({ k \in DOMAIN issued' : issued'[k].msg = i }) <= 1 ]_vars

\* the RPC of the first message failed and the second message was still dispatched
\* and handled
C7_Witness ==
    /\ Len(issued) = 2
    /\ issued[1].state = "failed" /\ issued[1].msg = 1
    /\ issued[2].state = "ok" /\ issued[2].msg = 2
    /\ bridgePc = "running"

(* C8: after a successful CheckIn answered with room R, the lookup of (L, R)
   succeeds, with the store working, for every casing L of the last name, and
   every such lookup returns the one row of that check-in. *)
C8_LookupAnyCasing ==
    \A i \in DOMAIN checkins : Succeeded(i) =>
        \A L, M \in LastNames :
            (toLowerCase(L) = toLowerCase(checkins[i].request.lastName)
             /\ toLowerCase(M) = toLowerCase(checkins[i].request.lastName))
            => LET R == checkins[i].value.roomNumber
                   a == getGuestByLastNameAndRoom(guests, [lastName |-> L, roomNumber |-> R], FALSE)
                   b == getGuestByLastNameAndRoom(guests, [lastName |-> M, roomNumber |-> R], FALSE)
               IN /\ a.err = Null
                  /\ a.value = b.value
                  /\ a.value.roomNumber = R
                  /\ a.value.lastName = toLowerCase(checkins[i].request.lastName)
                  /\ a.value.firstName = toLowerCase(checkins[i].request.firstName)

\* a guest checked in under an upper-case last name was looked up successfully
C8_Witness ==
    /\ \E i \in DOMAIN checkins :
        Succeeded(i) /\ checkins[i].request.lastName # toLowerCase(checkins[i].request.lastName)
    /\ getResp.op = "get" /\ getResp.rows = 1 /\ getResp.err = Null

(* C9: a successful CheckIn leaves a row whose lookup shows wifiLoginCount 0; and
   once an increment event for a checked-in guest is delivered to the bridge, a
   lookup of the guest eventually shows a count of at least 1, unless the RPC of
   that event failed. *)
LookupShows(request, n) ==
    LET resp == getGuestByLastNameAndRoom(guests, request, FALSE) IN
    resp.err = Null /\ resp.value.wifiLoginCount >= n

EventWaiting(i) ==
    /\ i \in DOMAIN delivered
    /\ i > cursor
    /\ WellFormedIncrement(delivered[i])
    /\ LookupShows(delivered[i].body.data, 0)

EventCounted(i) ==
    /\ i \in DOMAIN delivered
    /\ WellFormedIncrement(delivered[i])
    /\ \/ LookupShows(delivered[i].body.data, 1)
       \/ \E k \in RpcsOf(i) : issued[k].state = "failed"

C9_EndToEnd ==
    \A i \in 1..MaxMsgs : [](EventWaiting(i) => <>EventCounted(i))

(* C10: every stored firstName and lastName is its own lower-casing, and
   CheckIn requests whose names differ only in letter case store the same
   firstName and lastName. *)
C10_NamesLowerCased ==
    /\ \A g \in guests :
        toLowerCase(g.first_name) = g.first_name /\ toLowerCase(g.last_name) = g.last_name
    /\ \A i, j \in DOMAIN checkins :
        (/\ Succeeded(i) /\ Succeeded(j)
         /\ toLowerCase(checkins[i].request.firstName) = toLowerCase(checkins[j].request.firstName)
         /\ toLowerCase(checkins[i].request.lastName) = toLowerCase(checkins[j].request.lastName))
        => \A g, h \in guests :
            (g.room_number = checkins[i].value.roomNumber
             /\ h.room_number = checkins[j].value.roomNumber)
            => g.first_name = h.first_name /\ g.last_name = h.last_name

\* two check-ins whose names differ only in letter case both stored their row
C10_Witness ==
    \E i, j \in DOMAIN checkins :
        /\ Succeeded(i) /\ Succeeded(j)
        /\ checkins[i].request # checkins[j].request
        /\ Cardinality(guests) = 2

----------------------------------------------------------------------------
(* Helpers of the later properties *)

RowOf(rows, id) == CHOOSE h \in rows : h.id = id

\* exactly one of the error and the value is null
ExactlyOne(resp) == (resp.err = Null) # (resp.value = Null)

(* C11: whatever RPCs are in flight, a step raises a guest's wifiLoginCount by
   exactly the number of increment requests naming the guest whose store call
   succeeded in that step, counted from the stored value: a successful request
   adds one, a failed one adds nothing, and nothing else changes the count. *)
C11_NoLostUpdate ==
    [][ \A g \in guests :
          LET h == RowOf(guests', g.id)
              succeeded == { k \in DOMAIN issued :
                                /\ issued[k].state = "inflight"
                                /\ issued'[k].state = "ok"
                                /\ NamedBy(issued[k].request, g) }
              failed == { k \in DOMAIN issued :
                                issued[k].state = "inflight" /\ issued'[k].state = "failed" }
          IN /\ h.wifi_login_count - g.wifi_login_count = okCalls'[g.id] - okCalls[g.id]
             /\ h.wifi_login_count - g.wifi_login_count \in {0, 1}
             /\ succeeded # {} => h.wifi_login_count = g.wifi_login_count + 1
             /\ failed # {} => h.wifi_login_count = g.wifi_login_count ]_vars

\* the second RPC of the bridge was handled while the first was still in flight,
\* both for the same guest
C11_Witness ==
    /\ Len(issued) = 2
    /\ issued[1].state = "inflight" /\ issued[2].state = "ok"
    /\ issued[1].request = issued[2].request
    /\ \E g \in guests : NamedBy(issued[2].request, g) /\ g.wifi_login_count = 1

(* C12: every request whose handler has ended got exactly one callback, with an
   error and no value or a value and no error. *)
C12_ExactlyOneOutcome ==
    /\ \A i \in DOMAIN checkins :
        checkins[i].pc \in {"done", "rejected"}
            => checkins[i].callbacks = 1 /\ ExactlyOne(checkins[i])
    /\ getResp.op = "get" => getResp.callbacks = 1 /\ ExactlyOne(getResp)
    /\ \A request \in Requests, fail \in BOOLEAN :
        ExactlyOne(incrementWifiLoginCount(guests, request, fail))

(* C13: a CheckIn whose room allocation failed is answered with an error of the
   uniform shape, and inserted nothing. *)
C13_AllocationFailureAnswered ==
    \A i \in DOMAIN checkins :
        checkins[i].pc = "rejected"
            => /\ checkins[i].callbacks = 1
               /\ checkins[i].err # Null
               /\ checkins[i].err.name = "ServiceError"
               /\ checkins[i].value = Null

(* C14: the loop takes the next delivered message whether or not RPCs are still
   in flight, and the RPCs are issued in the order of their messages. *)
C14_FireAndForget ==
    /\ (bridgePc = "running" /\ cursor < Len(delivered)) => ENABLED BridgeStep
    /\ \A k, l \in DOMAIN issued : k < l => issued[k].msg < issued[l].msg
    /\ \A k \in DOMAIN issued : issued[k].msg <= cursor

\* the RPCs of two messages are in flight at once
C14_Witness ==
    /\ cursor = 2
    /\ Len(issued) = 2
    /\ issued[1].state = "inflight" /\ issued[2].state = "inflight"

(* C15: a row is created with wifiLoginCount 0, its count is never negative and
   never decreases, and no row disappears. *)
C15_CountMonotone ==
    [][ /\ \A g \in guests : \E h \in guests' : h.id = g.id
        /\ \A h \in guests' :
            /\ h.wifi_login_count >= 0
            /\ IF \E g \in guests : g.id = h.id
               THEN h.wifi_login_count >= RowOf(guests, h.id).wifi_login_count
               ELSE h.wifi_login_count = 0 ]_vars

\* one guest was incremented up to the cap and a later guest was checked in at 0
C15_Witness ==
    \E g, h \in guests :
        /\ g.id < h.id
        /\ g.wifi_login_count = MaxCount
        /\ h.wifi_login_count = 0

(* C16: a lookup whose (lower-cased lastName, roomNumber) names more than one
   stored row is answered with an error and no value. *)
C16_AmbiguousIsError ==
    (getResp.op = "get" /\ getResp.rows > 1)
        => getResp.err # Null /\ getResp.value = Null

\* a lookup named two rows while the store worked
C16_Witness ==
    /\ getResp.op = "get"
    /\ getResp.rows = 2
    /\ ~getResp.failed
    /\ getResp.err = generateServiceError(NoRowError)

(* C17 as stated: a failed connect or subscribe at start-up takes the process to
   a failed state, and no message is processed before the subscription exists. *)
C17_ConnectFailureFatal ==
    /\ bridgePc = "connectFailed" => serverPc = "failed"
    /\ cursor > 0 => bridgePc \in {"running", "crashed"}

(* C17 amended: a failed connect or subscribe at start-up is caught and logged;
   the process does not fail and the RPC service keeps running without a bridge,
   which never receives or processes a message; and no message is delivered or
   processed before the subscription exists. *)
C17_ConnectFailureLogged ==
    /\ bridgePc = "connectFailed"
        => serverPc = "bound" /\ delivered = <<>> /\ cursor = 0 /\ issued = <<>>
    /\ (cursor > 0 \/ delivered # <<>>) => bridgePc \in {"running", "crashed"}

\* the connect failed and a check-in was served all the same
C17_Witness ==
    /\ bridgePc = "connectFailed"
    /\ \E i \in DOMAIN checkins : Succeeded(i)

(* C18: a step changes no row's id, names or roomNumber; it changes a row's
   wifiLoginCount only for a successful increment request whose lower-cased
   lastName and roomNumber are the row's; and a lookup changes no row. *)
C18_IncrementFrame ==
    [][ /\ \A g \in guests :
            LET h == RowOf(guests', g.id) IN
            /\ h.first_name = g.first_name
            /\ h.last_name = g.last_name
            /\ h.room_number = g.room_number
            /\ h.wifi_login_count # g.wifi_login_count
                => /\ okCalls'[g.id] = okCalls[g.id] + 1
                   /\ \A k \in DOMAIN issued :
                        (issued[k].state = "inflight" /\ issued'[k].state # "inflight")
                            => /\ g.last_name = toLowerCase(issued[k].request.lastName)
                               /\ g.room_number = issued[k].request.roomNumber
        /\ getResp' # getResp => guests' = guests ]_vars

\* one guest was incremented by the bridge, the other guest was left alone, and
\* a lookup was answered
C18_Witness ==
    /\ \E g, h \in guests :
        /\ g.wifi_login_count = 1
        /\ h.wifi_login_count = 0
    /\ \E k \in DOMAIN issued : issued[k].state = "ok"
    /\ getResp.op = "get" /\ getResp.err = Null

(* C19: before a successful bind, and for ever after a failed one, the bridge is
   off: no connection, no delivered or consumed message, no RPC of the bridge. *)
C19_BridgeAfterBind ==
    serverPc # "bound"
        => bridgePc = "off" /\ delivered = <<>> /\ cursor = 0 /\ issued = <<>>

\* the bind failed and the bridge was not started
C19_Witness ==
    serverPc = "bindFailed" /\ bridgePc = "off"

====
